---- MODULE Spec2Model ----
(***************************************************************************)
(* Model of the task list view (TaskList) and the task form (TaskForm).    *)
(* Every handler is an async function: the click captures the values of    *)
(* the render it was created in (tasks, editingTask, the form fields, the  *)
(* onSave prop), the remote store answers later, and the continuation      *)
(* after the await runs with the captured values.                          *)
(***************************************************************************)
EXTENDS Integers, Sequences, FiniteSets, TLC

\* ---- bounds ----
MaxOps == 2      \* Delete, ChangeStatus and Submit invocations during a run
MaxEdits == 1    \* fields of a mounted form that differ from their initial values

\* ---- values ----
None == <<>>
Some(x) == <<x>>

USER == "u1"
Statuses == {"pending", "in_progress", "completed"}
Priorities == {"low", "medium", "high"}
\* what the user types or picks; titles are sequences of characters
Titles == {<<>>, <<" ">>, <<"a">>}
Descriptions == {""}
PriorityChoices == {"high"}
DueDates == {None}

NoPayload == [title |-> <<>>, description |-> None, priority |-> "medium", due_date |-> None]

\* the rows of the table when the view mounts
R1 == [id |-> 1, title |-> <<"a">>, description |-> Some("d"), status |-> "pending",
       priority |-> "low", due_date |-> None, created_at |-> 1, user_id |-> USER]
R2 == [id |-> 2, title |-> <<"a">>, description |-> None, status |-> "completed",
       priority |-> "medium", due_date |-> Some([day |-> 1, tod |-> 0]), created_at |-> 2,
       user_id |-> USER]
InitRows == {R1, R2}
\* the table also holds the rows of other accounts
OtherUser == "u2"
R0 == [id |-> 0, title |-> <<"a">>, description |-> None, status |-> "in_progress",
       priority |-> "high", due_date |-> None, created_at |-> 0, user_id |-> OtherUser]
OtherRows == {R0}
InitStores == {InitRows \cup OtherRows}
\* the store hands out ids in sequence
FirstNewId == Cardinality(InitRows) + 1

VARIABLES
  store,        \* remote table 'tasks': a set of records
  nextId,       \* next id the store assigns
  clock,        \* store time, source of created_at
  tasks,        \* useState<Task[]>
  loading,      \* TaskList loading
  showForm,     \* TaskList showForm
  editingTask,  \* TaskList editingTask: None or Some(task)
  title, description, priority, dueDate, formLoading,   \* TaskForm state
  calls,        \* async handler invocations awaiting the remote store
  loadOk,       \* the read of fetchTasks returned data
  started,      \* handler invocations so far (bounded by MaxOps)
  notify,       \* toast emitted by the last step
  saved         \* onSave was invoked by the last step

vars == <<store, nextId, clock, tasks, loading, showForm, editingTask,
          title, description, priority, dueDate, formLoading, calls, loadOk, started, notify, saved>>

storeVars == <<store, nextId, clock>>
formVars == <<title, description, priority, dueDate, formLoading>>
viewVars == <<showForm, editingTask>>

NoToast == [kind |-> "none", op |-> "none"]
Toast(k, o) == [kind |-> k, op |-> o]

\* ---- pure helpers ----
Ids(s) == {s[i].id : i \in DOMAIN s}

\* tasks.filter(task => task.id !== id)
FilterOut(s, id) == SelectSeq(s, LAMBDA t : t.id # id)

\* tasks.map(task => task.id === id ? { ...task, status: newStatus } : task)
MapStatus(s, id, st) ==
  [i \in DOMAIN s |-> IF s[i].id = id THEN [s[i] EXCEPT !.status = st] ELSE s[i]]

\* tasks.map(t => t.id === task.id ? task : t)
MapReplace(s, task) ==
  [i \in DOMAIN s |-> IF s[i].id = task.id THEN task ELSE s[i]]

\* (variant: the saved task is added at the end of the list)
Prepend_Appends(task, s) == s \o <<task>>

\* [task, ...tasks]
Prepend(task, s) == <<task>> \o s

\* new Date(dueDate).toISOString(): a date-only string is midnight UTC
DateToISO(d) == [day |-> d, tod |-> 0]
\* new Date(ts).toISOString().split('T')[0]
ISOToDate(ts) == ts.day

\* the taskData object of handleSubmit
TaskData(t, d, p, dd) ==
  [title |-> t,
   description |-> IF d = "" THEN None ELSE Some(d),
   priority |-> p,
   due_date |-> IF dd = None THEN None ELSE Some(DateToISO(dd[1]))]

\* the useState initialisers of TaskForm
InitTitle(task) == IF task = None THEN <<>> ELSE task[1].title
InitDescription(task) ==
  IF task = None \/ task[1].description = None THEN "" ELSE task[1].description[1]
InitPriority(task) == IF task = None THEN "medium" ELSE task[1].priority
InitDueDate(task) ==
  IF task = None \/ task[1].due_date = None THEN None ELSE Some(ISOToDate(task[1].due_date[1]))

\* (variant: the reopen button is rendered for every status but pending)
Offered_ReopenFromInProgress(st) ==
  IF st = "pending" THEN {"in_progress", "completed"}
  ELSE IF st = "in_progress" THEN {"completed", "pending"}
  ELSE {"pending"}

\* the status buttons rendered for a task
Offered(st) ==
  IF st = "pending" THEN {"in_progress", "completed"}
  ELSE IF st = "in_progress" THEN {"completed"}
  ELSE {"pending"}

\* .order('created_at', { ascending: false })
IsDescending(s) == \A i, j \in DOMAIN s : i < j => s[i].created_at >= s[j].created_at
RECURSIVE SeqsOf(_)
SeqsOf(S) == IF S = {} THEN {<<>>}
             ELSE UNION {{<<x>> \o r : r \in SeqsOf(S \ {x})} : x \in S}
SelectAll(S) == {s \in SeqsOf(S) : IsDescending(s)}

\* the list view is rendered (neither the form nor the loading screen)
ListShown == ~showForm /\ editingTask = None /\ ~loading
FormShown == showForm \/ editingTask # None

Call(k, pc, id, st, payload) ==
  [kind |-> k, pc |-> pc, id |-> id, newStatus |-> st,
   tasks |-> tasks, editing |-> editingTask, payload |-> payload,
   user |-> None, data |-> <<>>, live |-> TRUE]

RemoveAt(s, i) == SubSeq(s, 1, i - 1) \o SubSeq(s, i + 1, Len(s))

\* the form unmounts: its pending submissions no longer reach its state
Unmounted(cs) == [i \in DOMAIN cs |-> [cs[i] EXCEPT !.live = FALSE]]

Init ==
  /\ store \in InitStores
  /\ nextId = FirstNewId
  /\ clock = 2
  /\ tasks = <<>>
  /\ loading = TRUE
  /\ showForm = FALSE
  /\ editingTask = None
  /\ title = <<>> /\ description = "" /\ priority = "medium" /\ dueDate = None
  /\ formLoading = FALSE
  /\ calls = <<[kind |-> "load", pc |-> "sent", id |-> 0, newStatus |-> "pending",
                tasks |-> <<>>, editing |-> None, payload |-> NoPayload,
                user |-> None, data |-> <<>>, live |-> TRUE]>>
  /\ loadOk = FALSE
  /\ started = 0
  /\ notify = NoToast
  /\ saved = FALSE


Quiet == notify' = NoToast /\ saved' = FALSE

\* the values of a form that is not mounted
FormReset ==
  /\ title' = <<>> /\ description' = "" /\ priority' = "medium" /\ dueDate' = None
  /\ formLoading' = FALSE

\* the useState initialisers run when TaskForm mounts with prop task
FormMount(task) ==
  /\ title' = InitTitle(task)
  /\ description' = InitDescription(task)
  /\ priority' = InitPriority(task)
  /\ dueDate' = InitDueDate(task)
  /\ formLoading' = FALSE

\* the store has applied the command of call i and answered with data
Reply(i, data) == [calls EXCEPT ![i] = [@ EXCEPT !.pc = "replied", !.data = data]]

Pending(i, k) == i \in DOMAIN calls /\ calls[i].kind \in k /\ calls[i].pc = "sent"
Replied(i, k) == i \in DOMAIN calls /\ calls[i].kind \in k /\ calls[i].pc = "replied"

\* ---------------- Load ----------------
\* the row policy of the table: an account reads its own rows only
Visible(S) == {r \in S : r.user_id = USER}

\* supabase.from('tasks').select('*').order('created_at', desc)
StoreSelect(i) ==
  /\ Pending(i, {"load"})
  /\ \E s \in SelectAll(Visible(store)) : calls' = Reply(i, s)
  /\ Quiet
  /\ UNCHANGED <<storeVars, tasks, loading, viewVars, formVars, loadOk, started>>

\* fetchTasks after the await, error absent
fetchTasksReturn(i) ==
  /\ Replied(i, {"load"})
  /\ tasks' = calls[i].data /\ loadOk' = TRUE /\ notify' = NoToast
  /\ loading' = FALSE
  /\ saved' = FALSE
  /\ calls' = RemoveAt(calls, i)
  /\ UNCHANGED <<storeVars, viewVars, formVars, started>>

\* (variant: setLoading(false) follows setTasks in the try block, no finally)
fetchTasksFailed_KeepsLoading(i) ==
  /\ Pending(i, {"load"})
  /\ tasks' = tasks /\ loadOk' = loadOk /\ notify' = Toast("error", "load")
  /\ loading' = loading
  /\ saved' = FALSE
  /\ calls' = RemoveAt(calls, i)
  /\ UNCHANGED <<storeVars, viewVars, formVars, started>>

\* fetchTasks after the await, error present: catch and finally
fetchTasksFailed(i) ==
  /\ Pending(i, {"load"})
  /\ tasks' = tasks /\ loadOk' = loadOk /\ notify' = Toast("error", "load")
  /\ loading' = FALSE
  /\ saved' = FALSE
  /\ calls' = RemoveAt(calls, i)
  /\ UNCHANGED <<storeVars, viewVars, formVars, started>>

\* ---------------- Delete ----------------
handleDeleteTask(id) ==
  /\ ListShown
  /\ id \in Ids(tasks)
  /\ started < MaxOps
  /\ started' = started + 1
  /\ calls' = Append(calls, Call("delete", "sent", id, "pending", NoPayload))
  /\ Quiet
  /\ UNCHANGED <<storeVars, tasks, loading, viewVars, formVars, loadOk>>

\* supabase.from('tasks').delete().eq('id', id)
StoreDelete(i) ==
  /\ Pending(i, {"delete"})
  /\ store' = {r \in store : r.id # calls[i].id}
  /\ calls' = Reply(i, <<>>)
  /\ Quiet
  /\ UNCHANGED <<nextId, clock, tasks, loading, viewVars, formVars, loadOk, started>>

\* handleDeleteTask after the await, error absent
DeleteReturn(i) ==
  /\ Replied(i, {"delete"})
  /\ tasks' = FilterOut(calls[i].tasks, calls[i].id)
  /\ notify' = Toast("success", "delete")
  /\ saved' = FALSE
  /\ calls' = RemoveAt(calls, i)
  /\ UNCHANGED <<storeVars, loading, viewVars, formVars, loadOk, started>>

\* (variant: the entry is removed although the remote delete failed)
DeleteFailed_Removes(i) ==
  /\ Pending(i, {"delete"})
  /\ tasks' = FilterOut(tasks, calls[i].id)
  /\ notify' = Toast("error", "delete")
  /\ saved' = FALSE
  /\ calls' = RemoveAt(calls, i)
  /\ UNCHANGED <<storeVars, loading, viewVars, formVars, loadOk, started>>

\* handleDeleteTask after the await, error present: catch
DeleteFailed(i) ==
  /\ Pending(i, {"delete"})
  /\ tasks' = tasks
  /\ notify' = Toast("error", "delete")
  /\ saved' = FALSE
  /\ calls' = RemoveAt(calls, i)
  /\ UNCHANGED <<storeVars, loading, viewVars, formVars, loadOk, started>>

\* ---------------- ChangeStatus ----------------
handleStatusChange(id, newStatus) ==
  /\ ListShown
  /\ \E k \in DOMAIN tasks : tasks[k].id = id /\ newStatus \in Offered(tasks[k].status)
  /\ started < MaxOps
  /\ started' = started + 1
  /\ calls' = Append(calls, Call("status", "sent", id, newStatus, NoPayload))
  /\ Quiet
  /\ UNCHANGED <<storeVars, tasks, loading, viewVars, formVars, loadOk>>

\* supabase.from('tasks').update({ status: newStatus }).eq('id', id)
StoreUpdateStatus(i) ==
  /\ Pending(i, {"status"})
  /\ store' = {IF r.id = calls[i].id THEN [r EXCEPT !.status = calls[i].newStatus] ELSE r :
                 r \in store}
  /\ calls' = Reply(i, <<>>)
  /\ Quiet
  /\ UNCHANGED <<nextId, clock, tasks, loading, viewVars, formVars, loadOk, started>>

\* handleStatusChange after the await, error absent
StatusReturn(i) ==
  /\ Replied(i, {"status"})
  /\ tasks' = MapStatus(calls[i].tasks, calls[i].id, calls[i].newStatus)
  /\ notify' = Toast("success", "status")
  /\ saved' = FALSE
  /\ calls' = RemoveAt(calls, i)
  /\ UNCHANGED <<storeVars, loading, viewVars, formVars, loadOk, started>>

\* (variant: the catch block is empty)
StatusFailed_Silent(i) ==
  /\ Pending(i, {"status"})
  /\ tasks' = tasks
  /\ notify' = NoToast
  /\ saved' = FALSE
  /\ calls' = RemoveAt(calls, i)
  /\ UNCHANGED <<storeVars, loading, viewVars, formVars, loadOk, started>>

\* handleStatusChange after the await, error present: catch
StatusFailed(i) ==
  /\ Pending(i, {"status"})
  /\ tasks' = tasks
  /\ notify' = Toast("error", "status")
  /\ saved' = FALSE
  /\ calls' = RemoveAt(calls, i)
  /\ UNCHANGED <<storeVars, loading, viewVars, formVars, loadOk, started>>

\* ---------------- view switching ----------------
BeginCreate ==
  /\ ListShown
  /\ started < MaxOps
  /\ showForm' = TRUE
  /\ FormMount(None)
  /\ Quiet
  /\ UNCHANGED <<storeVars, tasks, loading, editingTask, calls, loadOk, started>>

BeginEdit(k) ==
  /\ ListShown
  /\ started < MaxOps
  /\ k \in DOMAIN tasks
  /\ editingTask' = Some(tasks[k])
  /\ FormMount(Some(tasks[k]))
  /\ Quiet
  /\ UNCHANGED <<storeVars, tasks, loading, showForm, calls, loadOk, started>>

onCancel ==
  /\ FormShown
  /\ showForm' = FALSE
  /\ editingTask' = None
  /\ FormReset
  /\ calls' = Unmounted(calls)
  /\ Quiet
  /\ UNCHANGED <<storeVars, tasks, loading, loadOk, started>>

\* supabase.auth.signOut(): the session is the auth collaborator's state, seen
\* by this view only through the answer of getUser
handleSignOut ==
  /\ ListShown
  /\ Quiet
  /\ UNCHANGED <<storeVars, tasks, loading, viewVars, formVars, calls, loadOk, started>>

\* ---------------- form fields ----------------
\* how many fields would differ from what the form was mounted with
Changed(t, d, p, dd) ==
  (IF t # InitTitle(editingTask) THEN 1 ELSE 0)
  + (IF d # InitDescription(editingTask) THEN 1 ELSE 0)
  + (IF p # InitPriority(editingTask) THEN 1 ELSE 0)
  + (IF dd # InitDueDate(editingTask) THEN 1 ELSE 0)

setTitle(t) ==
  /\ FormShown /\ t # title
  /\ Changed(t, description, priority, dueDate) <= MaxEdits
  /\ title' = t
  /\ Quiet
  /\ UNCHANGED <<storeVars, tasks, loading, viewVars, description, priority, dueDate,
                 formLoading, calls, loadOk, started>>

setDescription(d) ==
  /\ FormShown /\ d # description
  /\ Changed(title, d, priority, dueDate) <= MaxEdits
  /\ description' = d
  /\ Quiet
  /\ UNCHANGED <<storeVars, tasks, loading, viewVars, title, priority, dueDate,
                 formLoading, calls, loadOk, started>>

setPriority(p) ==
  /\ FormShown /\ p # priority
  /\ Changed(title, description, p, dueDate) <= MaxEdits
  /\ priority' = p
  /\ Quiet
  /\ UNCHANGED <<storeVars, tasks, loading, viewVars, title, description, dueDate,
                 formLoading, calls, loadOk, started>>

setDueDate(d) ==
  /\ FormShown /\ d # dueDate
  /\ Changed(title, description, priority, d) <= MaxEdits
  /\ dueDate' = d
  /\ Quiet
  /\ UNCHANGED <<storeVars, tasks, loading, viewVars, title, description, priority,
                 formLoading, calls, loadOk, started>>

\* ---------------- Submit ----------------
\* the browser blocks the submit event of a form whose required input is empty
Required(t) == t # <<>>

\* (variant: the submit button stays enabled while a submission is pending)
handleSubmit_NoGuard ==
  /\ FormShown
  /\ Required(title)
  /\ started < MaxOps
  /\ started' = started + 1
  /\ formLoading' = TRUE
  /\ LET data == TaskData(title, description, priority, dueDate) IN
       IF editingTask # None
         THEN calls' = Append(calls, Call("update", "sent", editingTask[1].id, "pending", data))
         ELSE calls' = Append(calls, Call("create", "getUser", 0, "pending", data))
  /\ Quiet
  /\ UNCHANGED <<storeVars, tasks, loading, viewVars, title, description, priority,
                 dueDate, loadOk>>

handleSubmit ==
  /\ FormShown
  /\ ~formLoading
  /\ Required(title)
  /\ started < MaxOps
  /\ started' = started + 1
  /\ formLoading' = TRUE
  /\ LET data == TaskData(title, description, priority, dueDate) IN
       IF editingTask # None
         THEN calls' = Append(calls, Call("update", "sent", editingTask[1].id, "pending", data))
         ELSE calls' = Append(calls, Call("create", "getUser", 0, "pending", data))
  /\ Quiet
  /\ UNCHANGED <<storeVars, tasks, loading, viewVars, title, description, priority,
                 dueDate, loadOk>>

\* (variant: the catch block also clears the title field)
Caught_ClearsTitle(i) ==
  /\ notify' = Toast("error", calls[i].kind)
  /\ saved' = FALSE
  /\ formLoading' = IF calls[i].live THEN FALSE ELSE formLoading
  /\ title' = <<>>
  /\ calls' = RemoveAt(calls, i)
  /\ UNCHANGED <<storeVars, tasks, loading, viewVars, description, priority,
                 dueDate, loadOk, started>>

\* (variant: setLoading(false) sits at the end of the try block, not in finally)
Caught_KeepsLoading(i) ==
  /\ notify' = Toast("error", calls[i].kind)
  /\ saved' = FALSE
  /\ formLoading' = formLoading
  /\ calls' = RemoveAt(calls, i)
  /\ UNCHANGED <<storeVars, tasks, loading, viewVars, title, description, priority,
                 dueDate, loadOk, started>>

\* the catch and finally blocks of handleSubmit
Caught(i) ==
  /\ notify' = Toast("error", calls[i].kind)
  /\ saved' = FALSE
  /\ formLoading' = IF calls[i].live THEN FALSE ELSE formLoading
  /\ calls' = RemoveAt(calls, i)
  /\ UNCHANGED <<storeVars, tasks, loading, viewVars, title, description, priority,
                 dueDate, loadOk, started>>

\* supabase.auth.getUser() returns the signed-in user, or none
AuthGetUser(i) ==
  /\ i \in DOMAIN calls /\ calls[i].kind = "create" /\ calls[i].pc = "getUser"
  /\ \E user \in {None, Some(USER)} :
     IF user = None
       THEN Caught(i)
       ELSE /\ calls' = [calls EXCEPT ![i] = [@ EXCEPT !.pc = "sent", !.user = user]]
            /\ Quiet
            /\ UNCHANGED <<storeVars, tasks, loading, viewVars, formVars, loadOk, started>>

\* the column default of the table
DefaultStatus == "pending"

\* (variant: the insert is sent without user_id)
StoreInsert_OmitsOwner(i) ==
  /\ Pending(i, {"create"})
  /\ nextId < FirstNewId + MaxOps
  /\ LET c == clock + 1 IN
       LET p == calls[i].payload
           rec == [id |-> nextId, title |-> p.title, description |-> p.description,
                   status |-> DefaultStatus, priority |-> p.priority,
                   due_date |-> p.due_date, created_at |-> c,
                   user_id |-> ""]
       IN /\ store' = store \cup {rec}
          /\ nextId' = nextId + 1
          /\ clock' = c
          /\ calls' = Reply(i, Some(rec))
  /\ Quiet
  /\ UNCHANGED <<tasks, loading, viewVars, formVars, loadOk, started>>

\* supabase.from('tasks').insert({ ...taskData, user_id: user.id }).select().single()
StoreInsert(i) ==
  /\ Pending(i, {"create"})
  /\ nextId < FirstNewId + MaxOps
  /\ LET c == clock + 1 IN
       LET p == calls[i].payload
           rec == [id |-> nextId, title |-> p.title, description |-> p.description,
                   status |-> DefaultStatus, priority |-> p.priority,
                   due_date |-> p.due_date, created_at |-> c,
                   user_id |-> calls[i].user[1]]
       IN /\ store' = store \cup {rec}
          /\ nextId' = nextId + 1
          /\ clock' = c
          /\ calls' = Reply(i, Some(rec))
  /\ Quiet
  /\ UNCHANGED <<tasks, loading, viewVars, formVars, loadOk, started>>

\* supabase.from('tasks').update(taskData).eq('id', task.id).select().single()
StoreUpdate(i) ==
  /\ Pending(i, {"update"})
  /\ \E r \in store :
       /\ r.id = calls[i].id
       /\ LET p == calls[i].payload
              rec == [r EXCEPT !.title = p.title, !.description = p.description,
                               !.priority = p.priority, !.due_date = p.due_date]
          IN /\ store' = (store \ {r}) \cup {rec}
             /\ calls' = Reply(i, Some(rec))
  /\ Quiet
  /\ UNCHANGED <<nextId, clock, tasks, loading, viewVars, formVars, loadOk, started>>

\* (variant: the saved task is prepended in edit mode too)
onSave_AlwaysPrepends(captured, editing, task) ==
  /\ tasks' = Prepend(task, captured)
  /\ showForm' = FALSE
  /\ editingTask' = None

\* the onSave prop captured by the submitting render
onSave(captured, editing, task) ==
  /\ tasks' = IF editing # None THEN MapReplace(captured, task) ELSE Prepend(task, captured)
  /\ showForm' = FALSE
  /\ editingTask' = None

\* handleSubmit after the await, result.error absent
SubmitReturn(i) ==
  /\ Replied(i, {"create", "update"})
  /\ onSave(calls[i].tasks, calls[i].editing, calls[i].data[1])
  /\ saved' = TRUE
  /\ notify' = Toast("success", calls[i].kind)
  /\ FormReset
  /\ calls' = Unmounted(RemoveAt(calls, i))
  /\ UNCHANGED <<storeVars, loading, loadOk, started>>

\* handleSubmit after the await, result.error present (an update of a row that
\* no longer exists is one such error: single() finds no row)
SubmitFailed(i) ==
  /\ Pending(i, {"create", "update"})
  /\ Caught(i)

Next ==
  \/ \E i \in DOMAIN calls : StoreSelect(i)
  \/ \E i \in DOMAIN calls : fetchTasksReturn(i)
  \/ \E i \in DOMAIN calls : fetchTasksFailed(i)
  \/ \E id \in 1..(FirstNewId + MaxOps - 1) : handleDeleteTask(id)
  \/ \E i \in DOMAIN calls : StoreDelete(i)
  \/ \E i \in DOMAIN calls : DeleteReturn(i)
  \/ \E i \in DOMAIN calls : DeleteFailed(i)
  \/ \E id \in 1..(FirstNewId + MaxOps - 1), s \in Statuses : handleStatusChange(id, s)
  \/ \E i \in DOMAIN calls : StoreUpdateStatus(i)
  \/ \E i \in DOMAIN calls : StatusReturn(i)
  \/ \E i \in DOMAIN calls : StatusFailed(i)
  \/ BeginCreate
  \/ \E k \in 1..(FirstNewId + MaxOps - 1) : BeginEdit(k)
  \/ onCancel
  \/ handleSignOut
  \/ \E t \in Titles : setTitle(t)
  \/ \E d \in Descriptions : setDescription(d)
  \/ \E p \in PriorityChoices : setPriority(p)
  \/ \E d \in DueDates : setDueDate(d)
  \/ handleSubmit
  \/ \E i \in DOMAIN calls : AuthGetUser(i)
  \/ \E i \in DOMAIN calls : StoreInsert(i)
  \/ \E i \in DOMAIN calls : StoreUpdate(i)
  \/ \E i \in DOMAIN calls : SubmitReturn(i)
  \/ \E i \in DOMAIN calls : SubmitFailed(i)

Spec == Init /\ [][Next]_vars

\* every awaited promise settles: the store and the auth service answer each
\* call and the continuation of the handler then runs
Remote ==
  \E i \in DOMAIN calls :
    \/ StoreSelect(i) \/ fetchTasksReturn(i) \/ fetchTasksFailed(i)
    \/ StoreDelete(i) \/ DeleteReturn(i) \/ DeleteFailed(i)
    \/ StoreUpdateStatus(i) \/ StatusReturn(i) \/ StatusFailed(i)
    \/ AuthGetUser(i) \/ StoreInsert(i) \/ StoreUpdate(i)
    \/ SubmitReturn(i) \/ SubmitFailed(i)

FairSpec == Spec /\ WF_vars(Remote)

\* ---------------------------------------------------------------------------
\* Properties
\* ---------------------------------------------------------------------------
StoreIds == {r.id : r \in store}
Rows(s) == {s[k] : k \in DOMAIN s}

\* this step is the continuation of call i after its remote call returned
Returns(i) ==
  /\ i \in DOMAIN calls /\ calls[i].pc = "replied"
  /\ calls' = IF calls[i].kind \in {"create", "update"}
               THEN Unmounted(RemoveAt(calls, i))
               ELSE RemoveAt(calls, i)

\* this step is the continuation of call i after its remote call returned an error
Fails(i) ==
  /\ i \in DOMAIN calls /\ calls[i].pc = "sent"
  /\ calls' = RemoveAt(calls, i)

\* this step is the continuation of create call i after the user lookup found no user
NoUser(i) ==
  /\ i \in DOMAIN calls /\ calls[i].pc = "getUser"
  /\ calls' = RemoveAt(calls, i)

\* a title that is empty or consists only of whitespace
Blank(t) == \A k \in DOMAIN t : t[k] = " "

\* C1: once the operations started so far have completed, every task held in
\* the local list exists in the remote store.
C1_LocalSubsetOfRemote == (calls = <<>>) => (Ids(tasks) \subseteq StoreIds)

\* C2: a Delete(id) that succeeded remotely leaves the previous list with exactly
\* the entry of that id removed (nothing when it is already absent); a failed
\* one removes nothing.
C2_DeleteRemovesExactlyOne ==
  [][\A i \in DOMAIN calls :
       /\ (Returns(i) /\ calls[i].kind = "delete") => tasks' = FilterOut(tasks, calls[i].id)
       /\ (Fails(i) /\ calls[i].kind = "delete") => tasks' = tasks]_vars

\* C3: a successful ChangeStatus(id, s) changes only the status field of the
\* entry with that id; every other field and entry, the length and the order
\* are as before.
C3_StatusChangeFrame ==
  [][\A i \in DOMAIN calls :
       (Returns(i) /\ calls[i].kind = "status") =>
         tasks' = MapStatus(tasks, calls[i].id, calls[i].newStatus)]_vars

\* C4: no remote command (user lookup, insert, update) is ever issued for a
\* submission whose title is empty or whitespace only.
C4_NoCommandForBlankTitle ==
  \A i \in DOMAIN calls :
    calls[i].kind \in {"create", "update"} => ~Blank(calls[i].payload.title)

\* C5: the continuation of a failed remote call (Load, Delete, ChangeStatus,
\* create, update, or a create without a user) leaves the local list as it
\* was; after a failed first Load the list is empty.
C5_FailureKeepsList ==
  /\ [][\A i \in DOMAIN calls :
          (Fails(i) \/ NoUser(i)) => tasks' = tasks]_vars
  /\ []((~loading /\ ~loadOk /\ started = 0) => tasks = <<>>)

C5_Witness ==
  /\ notify = Toast("error", "delete")
  /\ Len(tasks) = 2
  /\ loadOk

\* C6: a Submit() that fails (remote error, or no authenticated user on the
\* create path, where no insert is issued) does not invoke onSave, emits an
\* error notification, and leaves the form open with its four field values.
C6_FailedSubmitKeepsForm ==
  [][\A i \in DOMAIN calls :
       (calls[i].kind \in {"create", "update"} /\ (Fails(i) \/ NoUser(i))) =>
         /\ calls' = RemoveAt(calls, i)
         /\ ~saved'
         /\ notify' = Toast("error", calls[i].kind)
         /\ UNCHANGED <<showForm, editingTask, title, description, priority, dueDate>>
         /\ UNCHANGED <<tasks, storeVars>>]_vars

C6_Witness ==
  /\ notify = Toast("error", "create")
  /\ showForm
  /\ title = <<"a">>
  /\ ~formLoading
  /\ calls = <<>>
  /\ nextId = FirstNewId

\* C7: a successful create with user U yields a record with user_id = U and
\* status pending; the list afterwards is that record followed by the previous
\* list, and edit mode is exited.
C7_CreatePrepends ==
  [][\A i \in DOMAIN calls :
       (Returns(i) /\ calls[i].kind = "create") =>
         /\ calls[i].data[1].user_id = calls[i].user[1]
         /\ calls[i].data[1].status = "pending"
         /\ tasks' = Prepend(calls[i].data[1], tasks)
         /\ ~showForm' /\ editingTask' = None]_vars

\* this step is the store applying the update command of call i
Updates(i) ==
  /\ Pending(i, {"update"})
  /\ Len(calls') = Len(calls) /\ calls'[i].pc = "replied"

\* C8: a successful update replaces the local entry of the same id by the
\* returned record in place (length unchanged), and the returned record is the
\* updated row with its id, status, created_at and user_id unchanged.
C8_UpdateReplaces ==
  [][\A i \in DOMAIN calls :
       /\ (Returns(i) /\ calls[i].kind = "update") =>
            tasks' = MapReplace(tasks, calls[i].data[1])
       /\ Updates(i) =>
            \E r \in store :
              /\ r.id = calls[i].id
              /\ store' = (store \ {r}) \cup {calls'[i].data[1]}
              /\ calls'[i].data[1].id = r.id
              /\ calls'[i].data[1].status = r.status
              /\ calls'[i].data[1].created_at = r.created_at
              /\ calls'[i].data[1].user_id = r.user_id]_vars

\* C9: the local list is ordered by created_at, newest first, in every state.
C9_ListDescending == IsDescending(tasks)

C9_Witness ==
  /\ loadOk
  /\ Len(tasks) = 3
  /\ tasks[1].id = FirstNewId
  /\ started = MaxOps

\* C10: once every call has returned, the local list is the loaded list with
\* every successful mutation applied, that is, the user's rows of the store.
C10_NoLostPatch ==
  (calls = <<>> /\ loadOk) =>
    (Rows(tasks) = Visible(store) /\ Len(tasks) = Cardinality(Visible(store)))

\* two calls in flight were started from the same control: the delete button of
\* one task, one status button of one task, or the submit button of one form
SameControl(a, b) ==
  /\ a.kind = b.kind
  /\ \/ a.kind = "delete" /\ a.id = b.id
     \/ a.kind = "status" /\ a.id = b.id /\ a.newStatus = b.newStatus
     \/ a.kind \in {"create", "update"} /\ a.live /\ b.live

\* C11: no control (a task's delete button, a task's status button, the submit
\* button of the form) has two remote calls outstanding at the same time.
C11_OneCallPerControl ==
  \A i, j \in DOMAIN calls : i < j => ~SameControl(calls[i], calls[j])

\* the submissions in flight of the form that is mounted now
LiveSubmits == {i \in DOMAIN calls : calls[i].kind \in {"create", "update"} /\ calls[i].live}

\* this step starts a submission (handleSubmit up to its first await)
Submits ==
  /\ Len(calls') = Len(calls) + 1
  /\ calls'[Len(calls')].kind \in {"create", "update"}

\* C12: while a submission of the form is pending the form starts no second
\* one: the mounted form has at most one create or update command in flight,
\* it is pending exactly while its flag is set, a submission starts only with
\* the flag clear, and every insert into the store is the single insert of one
\* pending create.
C12_NoDuplicateSubmit ==
  /\ [](Cardinality(LiveSubmits) <= 1)
  /\ [](formLoading <=> LiveSubmits # {})
  /\ [][Submits => (~formLoading /\ formLoading')]_vars
  /\ [][(store' # store /\ nextId' # nextId) =>
          \E i \in DOMAIN calls :
            /\ Pending(i, {"create"})
            /\ calls' = Reply(i, calls'[i].data)
            /\ nextId' = nextId + 1
            /\ store' = store \cup {calls'[i].data[1]}
            /\ Cardinality(store') = Cardinality(store) + 1]_vars

\* a submission is pending and its insert is done, while the create of an
\* earlier, cancelled form is still in flight
C12_Witness ==
  /\ formLoading
  /\ \E i, j \in DOMAIN calls :
       /\ i < j
       /\ calls[i].kind = "create" /\ ~calls[i].live
       /\ calls[j].kind = "create" /\ calls[j].live /\ calls[j].pc = "replied"

\* C13: when the call of a submission returns (success, remote error, or no
\* authenticated user) the submitting flag of its form is false afterwards;
\* the flag is never set with no call in flight, and a set flag is eventually
\* cleared.
C13_SubmittingCleared ==
  /\ [][\A i \in DOMAIN calls :
          (/\ calls[i].kind \in {"create", "update"} /\ calls[i].live
           /\ (Returns(i) \/ Fails(i) \/ NoUser(i))) => ~formLoading']_vars
  /\ []((calls = <<>>) => ~formLoading)
  /\ (formLoading ~> ~formLoading)

\* an update failed: the form is still open and its flag is clear again
C13_Witness ==
  /\ notify = Toast("error", "update")
  /\ editingTask # None
  /\ ~formLoading
  /\ calls = <<>>

\* C14: when the read of Load() returns, with data or with an error, loading
\* is false; the indicator is on exactly while the read is outstanding, it is
\* eventually off, and once off it is never on again.
C14_LoadingEnds ==
  /\ [][\A i \in DOMAIN calls :
          (calls[i].kind = "load" /\ (Returns(i) \/ Fails(i))) => ~loading']_vars
  /\ [](loading <=> \E i \in DOMAIN calls : calls[i].kind = "load")
  /\ [][~loading => ~loading']_vars
  /\ <>(~loading)

\* the read failed, the indicator went off, and a task was created afterwards
C14_Witness ==
  /\ ~loading
  /\ ~loadOk
  /\ Len(tasks) = 1
  /\ notify = Toast("success", "create")

\* the transition table: pending to in_progress or completed, in_progress to
\* completed, completed to pending
Allowed(st) ==
  CASE st = "pending" -> {"in_progress", "completed"}
    [] st = "in_progress" -> {"completed"}
    [] st = "completed" -> {"pending"}

\* this step starts a status change (handleStatusChange up to its await)
StartsStatus ==
  /\ Len(calls') = Len(calls) + 1
  /\ calls'[Len(calls')].kind = "status"

\* C15: the status buttons of a task are exactly the allowed targets of its
\* displayed status: every status change started from the list view goes from
\* the displayed status to an allowed target, and every allowed target of a
\* displayed task can be started.
C15_OfferedTransitions ==
  /\ [](\A k \in DOMAIN tasks : Offered(tasks[k].status) = Allowed(tasks[k].status))
  /\ [][StartsStatus =>
          /\ ListShown
          /\ \E k \in DOMAIN tasks :
               /\ tasks[k].id = calls'[Len(calls')].id
               /\ calls'[Len(calls')].newStatus \in Allowed(tasks[k].status)]_vars
  /\ []((ListShown /\ started < MaxOps) =>
          \A k \in DOMAIN tasks : \A st \in Allowed(tasks[k].status) :
            ENABLED handleStatusChange(tasks[k].id, st))

\* a task displayed as in_progress is being completed
C15_Witness ==
  \E i \in DOMAIN calls :
    /\ calls[i].kind = "status" /\ calls[i].newStatus = "completed"
    /\ \E k \in DOMAIN calls[i].tasks :
         /\ calls[i].tasks[k].id = calls[i].id
         /\ calls[i].tasks[k].status = "in_progress"

\* a title without its leading and trailing whitespace
RECURSIVE TrimLeft(_)
TrimLeft(t) == IF t # <<>> /\ Head(t) = " " THEN TrimLeft(Tail(t)) ELSE t
RECURSIVE TrimRight(_)
TrimRight(t) ==
  IF t # <<>> /\ t[Len(t)] = " " THEN TrimRight(SubSeq(t, 1, Len(t) - 1)) ELSE t
Trim(t) == TrimRight(TrimLeft(t))

\* C16: the payload built by Submit() has exactly the fields title,
\* description, priority and due_date (no status, id or created_at): the
\* entered title trimmed, the description or null when it is empty, the
\* selected priority, and a null due_date when no date is entered.
C16_PayloadBuilt ==
  [][Submits =>
       LET p == calls'[Len(calls')].payload IN
         /\ DOMAIN p = {"title", "description", "priority", "due_date"}
         /\ p.title = Trim(title)
         /\ p.description = (IF description = "" THEN None ELSE Some(description))
         /\ p.priority = priority
         /\ (dueDate = None => p.due_date = None)]_vars

\* this step is the store answering the read of Load()
Selects(i) ==
  /\ Pending(i, {"load"})
  /\ Len(calls') = Len(calls) /\ calls'[i].pc = "replied"

UpdatesStatus(i) ==
  /\ Pending(i, {"status"})
  /\ Len(calls') = Len(calls) /\ calls'[i].pc = "replied"

\* C18: every status update that reaches the store is an allowed transition
\* from the status the store holds for that task at that moment.
C18_StoreTransitionsLegal ==
  [][\A i \in DOMAIN calls :
       UpdatesStatus(i) =>
         \A r \in store : r.id = calls[i].id => calls[i].newStatus \in Allowed(r.status)]_vars

\* the list after the step carries the patch of call c
Patched(c, s) ==
  CASE c.kind = "delete" -> c.id \notin Ids(s)
    [] c.kind = "status" -> \A k \in DOMAIN s : s[k].id = c.id => s[k].status = c.newStatus
    [] c.kind = "create" -> c.data[1] \in Rows(s)
    [] c.kind = "update" -> \A k \in DOMAIN s : s[k].id = c.id => s[k] = c.data[1]

\* C19: the step that completes a Delete, ChangeStatus or Submit emits one
\* notification: success when the remote command was applied (and then the
\* list carries the patch), error when it failed or no user was found (and
\* then the list is as before); a completed Load emits an error exactly when
\* the read failed; no other step emits a notification.
C19_OneNotification ==
  [][/\ \A i \in DOMAIN calls :
          /\ (Returns(i) /\ calls[i].kind # "load") =>
               (notify' = Toast("success", calls[i].kind) /\ Patched(calls[i], tasks'))
          /\ (Returns(i) /\ calls[i].kind = "load") => notify' = NoToast
          /\ (Fails(i) \/ NoUser(i)) =>
               (notify' = Toast("error", calls[i].kind) /\ tasks' = tasks)
     /\ (Len(calls') >= Len(calls)) => notify' = NoToast
     /\ (Len(calls') < Len(calls)) =>
          \E i \in DOMAIN calls : Returns(i) \/ Fails(i) \/ NoUser(i)]_vars

\* the last operation of the run, an update that changed a task, was saved and
\* notified as a success
C19_Witness ==
  /\ notify = Toast("success", "update")
  /\ calls = <<>>
  /\ started = MaxOps
  /\ Rows(tasks) # Visible(InitRows)
  /\ Cardinality(store) = Cardinality(InitRows \cup OtherRows)

\* C20: no two entries of the local list have the same id.
C20_UniqueIds == \A i, j \in DOMAIN tasks : i # j => tasks[i].id # tasks[j].id

\* two creates overlapped: both rows are in the store, the list holds one of
\* them and the two loaded rows
C20_Witness ==
  /\ calls = <<>>
  /\ nextId = FirstNewId + 2
  /\ Len(tasks) = 3
  /\ Cardinality(Ids(tasks)) = 3

====
